---- MODULE Spec2Model ----
(***************************************************************************)
(* A model of the uTools list-filter plugin: the list manager (the item    *)
(* store with export and import), the list search view (matching, ranking, *)
(* keyboard selection, auto-commit) and the application root that routes   *)
(* the host's plugin-enter and plugin-out events to them.                  *)
(*                                                                         *)
(* JavaScript strings are sequences of one-character strings.  JavaScript  *)
(* values are records [k, v]: k names the type and v holds the value.  An  *)
(* object's v is the sequence of its <<key, value>> pairs in insertion     *)
(* order, an array's v the sequence of its elements.                       *)
(***************************************************************************)
EXTENDS Integers, Sequences, FiniteSets, TLC

----------------------------------------------------------------------------
(* Bounds of the model *)

MaxItems == 2
MaxClock == 1
MaxMatchItems == 3
MaxCalls == 6
MaxEnters == 2

----------------------------------------------------------------------------
(* JavaScript values *)

Undefined == [k |-> "undefined", v |-> <<>>]
Null == [k |-> "null", v |-> <<>>]
Num(n) == [k |-> "num", v |-> n]
Str(s) == [k |-> "str", v |-> s]
Arr(a) == [k |-> "arr", v |-> a]
Obj(pairs) == [k |-> "obj", v |-> pairs]

IsArray(x) == x.k = "arr"

\* JavaScript's ToBoolean
Truthy(x) ==
  CASE x.k = "undefined" -> FALSE
    [] x.k = "null" -> FALSE
    [] x.k = "num" -> x.v # 0
    [] x.k = "str" -> x.v # <<>>
    [] OTHER -> TRUE

\* x.key
RECURSIVE Lookup(_, _)
Lookup(pairs, key) ==
  IF pairs = <<>> THEN Undefined
  ELSE IF pairs[Len(pairs)][1] = key THEN pairs[Len(pairs)][2]
  ELSE Lookup(SubSeq(pairs, 1, Len(pairs) - 1), key)

Get(x, key) == IF x.k = "obj" THEN Lookup(x.v, key) ELSE Undefined

HasKey(pairs, key) == \E i \in 1..Len(pairs) : pairs[i][1] = key

\* obj[key] = val on the pair sequence: an own key keeps its place
SetKey(pairs, key, val) ==
  IF HasKey(pairs, key)
  THEN [i \in 1..Len(pairs) |->
          IF pairs[i][1] = key THEN <<key, val>> ELSE pairs[i]]
  ELSE Append(pairs, <<key, val>>)

\* The property names of the program
K_id == <<"i", "d">>
K_title == <<"t", "i", "t", "l", "e">>
K_subtitle == <<"s", "u", "b", "t", "i", "t", "l", "e">>
K_trigger == <<"t", "r", "i", "g", "g", "e", "r">>
K_data == <<"d", "a", "t", "a">>
K_version == <<"v", "e", "r", "s", "i", "o", "n">>
K_timestamp == <<"t", "i", "m", "e", "s", "t", "a", "m", "p">>

----------------------------------------------------------------------------
(* Strings *)

QUOTE == "\""
BSL == "\\"
NL == "\n"
SP == " "

LowerChar(c) ==
  CASE c = "A" -> "a"
    [] c = "B" -> "b"
    [] c = "W" -> "w"
    [] c = "J" -> "j"
    [] c = "X" -> "x"
    [] OTHER -> c

toLowerCase(s) == [i \in 1..Len(s) |-> LowerChar(s[i])]

startsWith(s, p) == Len(p) <= Len(s) /\ SubSeq(s, 1, Len(p)) = p

includes(s, p) ==
  \E i \in 0..(Len(s) - Len(p)) : SubSeq(s, i + 1, i + Len(p)) = p

IsSpace(c) == c \in {SP, NL, "\t", "\r"}

RECURSIVE trimStart(_)
trimStart(s) ==
  IF s # <<>> /\ IsSpace(s[1]) THEN trimStart(Tail(s)) ELSE s

RECURSIVE trimEnd(_)
trimEnd(s) ==
  IF s # <<>> /\ IsSpace(s[Len(s)]) THEN trimEnd(SubSeq(s, 1, Len(s) - 1)) ELSE s

trim(s) == trimEnd(trimStart(s))

DigitChars == <<"0", "1", "2", "3", "4", "5", "6", "7", "8", "9">>

IsDigit(c) == \E d \in 1..10 : DigitChars[d] = c

DigitVal(c) == (CHOOSE d \in 1..10 : DigitChars[d] = c) - 1

\* Number.prototype.toString of a non-negative integer
RECURSIVE NumToString(_)
NumToString(n) ==
  IF n < 10 THEN <<DigitChars[n + 1]>>
  ELSE NumToString(n \div 10) \o <<DigitChars[(n % 10) + 1]>>

----------------------------------------------------------------------------
(* JSON.stringify(value, null, gap) *)

RECURSIVE Spaces(_)
Spaces(n) == IF n = 0 THEN <<>> ELSE <<SP>> \o Spaces(n - 1)

\* QuoteJSONString: the quote, the backslash and control characters are escaped
RECURSIVE EscapeChars(_)
EscapeChars(s) ==
  IF s = <<>> THEN <<>>
  ELSE (CASE s[1] = QUOTE -> <<BSL, QUOTE>>
          [] s[1] = BSL -> <<BSL, BSL>>
          [] s[1] = NL -> <<BSL, "n">>
          [] s[1] = "\t" -> <<BSL, "t">>
          [] s[1] = "\r" -> <<BSL, "r">>
          [] OTHER -> <<s[1]>>) \o EscapeChars(Tail(s))

QuoteString(s) == <<QUOTE>> \o EscapeChars(s) \o <<QUOTE>>

\* The break between the members of an array or object at nesting level lvl
Break(gap, lvl) == IF gap = 0 THEN <<>> ELSE <<NL>> \o Spaces(gap * lvl)

\* A property whose value is undefined is left out of an object
Serializable(pairs) == SelectSeq(pairs, LAMBDA p : p[2].k # "undefined")

RECURSIVE Serialize(_, _, _)
RECURSIVE SerializeElems(_, _, _)
RECURSIVE SerializePairs(_, _, _)

SerializeElems(a, gap, lvl) ==
  IF a = <<>> THEN <<>>
  ELSE Break(gap, lvl) \o Serialize(a[1], gap, lvl)
       \o (IF Len(a) > 1 THEN <<",">> ELSE <<>>)
       \o SerializeElems(Tail(a), gap, lvl)

SerializePairs(pairs, gap, lvl) ==
  IF pairs = <<>> THEN <<>>
  ELSE Break(gap, lvl) \o QuoteString(pairs[1][1]) \o <<":">>
       \o (IF gap = 0 THEN <<>> ELSE <<SP>>)
       \o Serialize(pairs[1][2], gap, lvl)
       \o (IF Len(pairs) > 1 THEN <<",">> ELSE <<>>)
       \o SerializePairs(Tail(pairs), gap, lvl)

Serialize(x, gap, lvl) ==
  CASE x.k = "null" -> <<"n", "u", "l", "l">>
    [] x.k = "undefined" -> <<"n", "u", "l", "l">>  \* an array element
    [] x.k = "num" -> NumToString(x.v)
    [] x.k = "str" -> QuoteString(x.v)
    [] x.k = "arr" ->
         IF x.v = <<>> THEN <<"[", "]">>
         ELSE <<"[">> \o SerializeElems(x.v, gap, lvl + 1)
              \o Break(gap, lvl) \o <<"]">>
    [] x.k = "obj" ->
         IF Serializable(x.v) = <<>> THEN <<"{", "}">>
         ELSE <<"{">> \o SerializePairs(Serializable(x.v), gap, lvl + 1)
              \o Break(gap, lvl) \o <<"}">>

JSONstringify(x, gap) == Serialize(x, gap, 0)

----------------------------------------------------------------------------
(* JSON.parse(text): a result is [ok, val, pos], pos the first unread place *)

ParseFail == [ok |-> FALSE, val |-> Undefined, pos |-> 0]
ParseOk(val, pos) == [ok |-> TRUE, val |-> val, pos |-> pos]

RECURSIVE SkipWs(_, _)
SkipWs(t, i) == IF i <= Len(t) /\ IsSpace(t[i]) THEN SkipWs(t, i + 1) ELSE i

\* The characters of a string literal after its opening quote
RECURSIVE ParseChars(_, _, _)
ParseChars(t, i, acc) ==
  IF i > Len(t) THEN ParseFail
  ELSE IF t[i] = QUOTE THEN ParseOk(Str(acc), i + 1)
  ELSE IF t[i] = BSL THEN
    IF i + 1 > Len(t) THEN ParseFail
    ELSE CASE t[i + 1] = QUOTE -> ParseChars(t, i + 2, Append(acc, QUOTE))
           [] t[i + 1] = BSL -> ParseChars(t, i + 2, Append(acc, BSL))
           [] t[i + 1] = "n" -> ParseChars(t, i + 2, Append(acc, NL))
           [] t[i + 1] = "t" -> ParseChars(t, i + 2, Append(acc, "\t"))
           [] t[i + 1] = "r" -> ParseChars(t, i + 2, Append(acc, "\r"))
           [] OTHER -> ParseFail
  ELSE IF t[i] \in {NL, "\t", "\r"} THEN ParseFail  \* a raw control character
  ELSE ParseChars(t, i + 1, Append(acc, t[i]))

RECURSIVE ParseDigits(_, _, _)
ParseDigits(t, i, acc) ==
  IF i <= Len(t) /\ IsDigit(t[i])
  THEN ParseDigits(t, i + 1, acc * 10 + DigitVal(t[i]))
  ELSE ParseOk(Num(acc), i)

\* F applied to the value of x
With(x, F(_)) == CHOOSE r \in {F(e) : e \in {x}} : TRUE

RECURSIVE ParseValue(_, _)
RECURSIVE ParseElems(_, _, _)
RECURSIVE ParseMembers(_, _, _)

\* After an element that ended before place j: a comma, or the closing "]"
AfterElem(t, j, elems) ==
  IF j > Len(t) THEN ParseFail
  ELSE IF t[j] = "," THEN ParseElems(t, j + 1, elems)
  ELSE IF t[j] = "]" THEN ParseOk(Arr(elems), j + 1)
  ELSE ParseFail

\* The elements of an array after "[" or after a comma
ParseElems(t, i, acc) ==
  With(ParseValue(t, i), LAMBDA e :
    IF ~e.ok THEN ParseFail
    ELSE AfterElem(t, SkipWs(t, e.pos), Append(acc, e.val)))

\* After a member that ended before place n: a comma, or the closing "}"
AfterMember(t, n, members) ==
  IF n > Len(t) THEN ParseFail
  ELSE IF t[n] = "," THEN ParseMembers(t, n + 1, members)
  ELSE IF t[n] = "}" THEN ParseOk(Obj(members), n + 1)
  ELSE ParseFail

\* The value of a member after its key, at place c
MemberValue(t, c, key, acc) ==
  IF c > Len(t) \/ t[c] # ":" THEN ParseFail
  ELSE With(ParseValue(t, c + 1), LAMBDA m :
         IF ~m.ok THEN ParseFail
         ELSE AfterMember(t, SkipWs(t, m.pos), SetKey(acc, key, m.val)))

\* The members of an object after "{" or after a comma
ParseMembers(t, i, acc) ==
  With(SkipWs(t, i), LAMBDA j :
    IF j > Len(t) \/ t[j] # QUOTE THEN ParseFail
    ELSE With(ParseChars(t, j + 1, <<>>), LAMBDA key :
           IF ~key.ok THEN ParseFail
           ELSE MemberValue(t, SkipWs(t, key.pos), key.val.v, acc)))

\* After "[" or "{" at place j: the closing bracket, or the first element
Bracketed(t, j) ==
  With(SkipWs(t, j + 1), LAMBDA c :
    IF t[j] = "["
    THEN IF c <= Len(t) /\ t[c] = "]" THEN ParseOk(Arr(<<>>), c + 1)
         ELSE ParseElems(t, j + 1, <<>>)
    ELSE IF c <= Len(t) /\ t[c] = "}" THEN ParseOk(Obj(<<>>), c + 1)
         ELSE ParseMembers(t, j + 1, <<>>))

ParseValue(t, i) ==
  With(SkipWs(t, i), LAMBDA j :
    IF j > Len(t) THEN ParseFail
    ELSE CASE t[j] = QUOTE -> ParseChars(t, j + 1, <<>>)
           [] t[j] \in {"[", "{"} -> Bracketed(t, j)
           [] t[j] = "n" ->
                IF j + 3 <= Len(t) /\ SubSeq(t, j, j + 3) = <<"n", "u", "l", "l">>
                THEN ParseOk(Null, j + 4) ELSE ParseFail
           [] IsDigit(t[j]) -> ParseDigits(t, j, 0)
           [] OTHER -> ParseFail)

\* [ok, val]: ok is FALSE where JSON.parse throws a SyntaxError
JSONparse(t) ==
  With(ParseValue(t, 1), LAMBDA r :
    IF r.ok /\ SkipWs(t, r.pos) = Len(t) + 1
    THEN [ok |-> TRUE, val |-> r.val]
    ELSE [ok |-> FALSE, val |-> Undefined])

----------------------------------------------------------------------------
(* The list item and the search view's matching and ranking *)

\* The ListItem literal of addItem: its properties in the order written
ListItem(id, title, subtitle, trigger, data) ==
  Obj(<<<<K_id, Str(id)>>, <<K_title, Str(title)>>,
        <<K_subtitle, Str(subtitle)>>, <<K_trigger, Str(trigger)>>,
        <<K_data, Str(data)>>>>)

\* item.trigger.toLowerCase() and its like throw a TypeError unless the
\* property is a string
LowerOf(item, key) == toLowerCase(Get(item, key).v)

FilterThrows(item) ==
  \E key \in {K_trigger, K_title, K_subtitle} : Get(item, key).k # "str"

\* The filter callback as it would be if it left the subtitle out
FilterNoSubtitle(item, keyword) ==
  \/ includes(LowerOf(item, K_trigger), keyword)
  \/ includes(LowerOf(item, K_title), keyword)

\* The filter callback of matchedItems
FilterMatch(item, keyword) ==
  \/ includes(LowerOf(item, K_trigger), keyword)
  \/ includes(LowerOf(item, K_title), keyword)
  \/ includes(LowerOf(item, K_subtitle), keyword)

\* The sort callback as it would be without its first test, and without its
\* second
SortCompareNoExact(a, b, keyword) ==
  LET aStartsWith == startsWith(LowerOf(a, K_trigger), keyword)
      bStartsWith == startsWith(LowerOf(b, K_trigger), keyword)
  IN IF aStartsWith /\ ~bStartsWith THEN -1
     ELSE IF ~aStartsWith /\ bStartsWith THEN 1
     ELSE 0

SortCompareNoPrefix(a, b, keyword) ==
  LET aExactMatch == LowerOf(a, K_trigger) = keyword
      bExactMatch == LowerOf(b, K_trigger) = keyword
  IN IF aExactMatch /\ ~bExactMatch THEN -1
     ELSE IF ~aExactMatch /\ bExactMatch THEN 1
     ELSE 0

\* The sort callback of matchedItems: negative, zero or positive
SortCompare(a, b, keyword) ==
  LET aExactMatch == LowerOf(a, K_trigger) = keyword
      bExactMatch == LowerOf(b, K_trigger) = keyword
      aStartsWith == startsWith(LowerOf(a, K_trigger), keyword)
      bStartsWith == startsWith(LowerOf(b, K_trigger), keyword)
  IN IF aExactMatch /\ ~bExactMatch THEN -1
     ELSE IF ~aExactMatch /\ bExactMatch THEN 1
     ELSE IF aStartsWith /\ ~bStartsWith THEN -1
     ELSE IF ~aStartsWith /\ bStartsWith THEN 1
     ELSE 0

\* Array.prototype.sort is a stable sort: an insertion sort that moves an
\* element left past those the callback orders after it
RECURSIVE InsertSorted(_, _, _)
InsertSorted(sorted, x, keyword) ==
  IF sorted = <<>> THEN <<x>>
  ELSE IF SortCompare(sorted[Len(sorted)], x, keyword) > 0
  THEN Append(InsertSorted(SubSeq(sorted, 1, Len(sorted) - 1), x, keyword),
              sorted[Len(sorted)])
  ELSE Append(sorted, x)

RECURSIVE SortItems(_, _)
SortItems(items, keyword) ==
  IF items = <<>> THEN <<>>
  ELSE InsertSorted(SortItems(SubSeq(items, 1, Len(items) - 1), keyword),
                    items[Len(items)], keyword)

\* The computed matchedItems: [ok, val], ok FALSE where the filter throws
matchedItemsOf(items, query) ==
  IF query = <<>> THEN [ok |-> TRUE, val |-> <<>>]
  ELSE IF \E i \in 1..Len(items) : FilterThrows(items[i])
  THEN [ok |-> FALSE, val |-> <<>>]
  ELSE LET keyword == toLowerCase(query) IN
       [ok |-> TRUE,
        val |-> SortItems(SelectSeq(items, LAMBDA item : FilterMatch(item, keyword)),
                          keyword)]

----------------------------------------------------------------------------
(* The state *)

VARIABLES
  route,            \* App: the view shown, "" for none
  enterAction,      \* App: the payload of the last plugin-enter action
  listItems,        \* ListManager: the collection in memory
  showAddForm,      \* ListManager: the form is shown
  editingItem,      \* ListManager: the item being edited, or Null
  formData,         \* ListManager: the form's fields
  storage,          \* localStorage['list-manager-data']: Null or a Str
  now,              \* the reading of the clock, Date.now()
  download,         \* the file exportData wrote last: Null or a Str
  exportedFrom,     \* history: listItems when download was written
  lastOp,           \* history: the handler that ran last and how it ended
  searchItems,      \* ListSearch: its own listItems
  searchKeyword,    \* ListSearch
  selectedIndex,    \* ListSearch
  keydownListeners, \* the keydown listeners registered on the document
  timerPending,     \* ListSearch: the setTimeout of onMounted has not fired
  staleTimers,      \* the pending timers of unmounted ListSearch instances
  calls,            \* history: the calls made on window.utools
  enters,           \* history: the plugin-enter events so far
  matchInput,       \* a collection and a query given to matchedItems
  matchOutput       \* what matchedItems returned for them

appVars == <<route, enterAction>>
managerVars == <<listItems, showAddForm, editingItem, formData>>
hostVars == <<storage, now, download, exportedFrom>>
searchVars == <<searchItems, searchKeyword, selectedIndex, keydownListeners,
                timerPending, staleTimers, calls, enters>>
matchVars == <<matchInput, matchOutput>>
vars == <<appVars, managerVars, hostVars, lastOp, searchVars, matchVars>>

NoOp ==
  [op |-> "none", outcome |-> "none", src |-> "none", file |-> <<>>,
   answer |-> FALSE]
Op(op, outcome) ==
  [op |-> op, outcome |-> outcome, src |-> "none", file |-> <<>>,
   answer |-> FALSE]

\* What the handler that ended so tells the user: an alert, an exception it
\* lets through, or nothing
Reports(op, outcome) ==
  CASE op = "add" /\ outcome = "rejected" -> "alert"
    [] op = "export" -> "alert"
    [] op = "import" /\ outcome \in {"imported", "saveFailed", "formatError",
                                     "importFailed"} -> "alert"
    [] op \in {"add", "update", "delete", "clear"} /\ outcome = "saveFailed" -> "throws"
    [] OTHER -> "none"

----------------------------------------------------------------------------
(* ListManager *)

EmptyForm ==
  Obj(<<<<K_title, Str(<<>>)>>, <<K_subtitle, Str(<<>>)>>,
        <<K_trigger, Str(<<>>)>>, <<K_data, Str(<<>>)>>>>)

\* loadData, of either view: the collection read from storage, given the
\* collection the view holds
loadData(saved, held) ==
  IF Truthy(saved) THEN JSONparse(saved.v).val.v ELSE held

\* saveData: what localStorage.setItem stores for a collection
saveData(items) == Str(JSONstringify(Arr(items), 0))

\* Date.now().toString()
NewId == Str(NumToString(now))

\* new Date().toISOString(), the digits of the clock between a T and a Z
ISOString == Str(<<"T">> \o NumToString(now) \o <<"Z">>)

\* findIndex(item => item.id === id): 0 where JavaScript gives -1
findIndex(items, id) ==
  IF \E i \in 1..Len(items) : Get(items[i], K_id) = id
  THEN CHOOSE i \in 1..Len(items) :
         /\ Get(items[i], K_id) = id
         /\ \A j \in 1..(i - 1) : Get(items[j], K_id) # id
  ELSE 0

\* { ...item }
Spread(item) == IF item.k = "obj" THEN item.v ELSE <<>>

\* The button that shows the form
OpenAddForm ==
  /\ route = "list-manager"
  /\ ~showAddForm
  /\ showAddForm' = TRUE
  /\ lastOp' = NoOp
  /\ UNCHANGED <<appVars, listItems, editingItem, formData, hostVars,
                 searchVars, matchVars>>

\* What the user types into the form's fields
FieldValues(key) ==
  CASE key = K_title -> {<<>>, <<"a">>}
    [] key = K_trigger -> {<<>>, <<"b">>}
    [] key = K_subtitle -> {<<>>}
    [] key = K_data -> {<<>>}

\* v-model on a field of the form
SetField(key, text) ==
  /\ route = "list-manager"
  /\ showAddForm
  /\ Get(formData, key) # Str(text)
  /\ formData' = Obj(SetKey(formData.v, key, Str(text)))
  /\ lastOp' = NoOp
  /\ UNCHANGED <<appVars, listItems, showAddForm, editingItem, hostVars,
                 searchVars, matchVars>>

\* resetForm, the form's cancel button
resetForm ==
  /\ route = "list-manager"
  /\ showAddForm
  /\ formData' = EmptyForm
  /\ showAddForm' = FALSE
  /\ editingItem' = Null
  /\ lastOp' = NoOp
  /\ UNCHANGED <<appVars, listItems, hostVars, searchVars, matchVars>>

\* editItem(item), the edit button of a listed item
editItem(i) ==
  /\ route = "list-manager"
  /\ i \in 1..Len(listItems)
  /\ editingItem' = listItems[i]
  /\ formData' = Obj(Spread(listItems[i]))
  /\ showAddForm' = TRUE
  /\ lastOp' = NoOp
  /\ UNCHANGED <<appVars, listItems, hostVars, searchVars, matchVars>>

\* The write as it would be if saveData() ran before the assignment
WriteBackStale(items, written) ==
  /\ listItems' = items
  /\ IF written THEN storage' = saveData(listItems) ELSE UNCHANGED storage

\* listItems.value = items and then saveData(), as every handler that changes
\* the collection does; written is FALSE where localStorage.setItem throws
WriteBack(items, written) ==
  /\ listItems' = items
  /\ IF written THEN storage' = saveData(items) ELSE UNCHANGED storage

\* The item addItem makes of the form
NewItem ==
  Obj(<<<<K_id, NewId>>,
        <<K_title, Get(formData, K_title)>>,
        <<K_subtitle, Get(formData, K_subtitle)>>,
        <<K_trigger, Get(formData, K_trigger)>>,
        <<K_data, Get(formData, K_data)>>>>)

\* The check addItem makes of the form
FormRejected ==
  ~Truthy(Get(formData, K_title)) \/ ~Truthy(Get(formData, K_trigger))

\* addItem, the form submitted with no item being edited
addItem(written) ==
  IF FormRejected
  THEN /\ lastOp' = Op("add", "rejected")
       /\ UNCHANGED <<listItems, showAddForm, editingItem, formData, storage>>
  ELSE /\ Len(listItems) < MaxItems
       /\ \E items \in {Append(listItems, NewItem)} : WriteBack(items, written)
       /\ IF written
          THEN /\ formData' = EmptyForm
               /\ showAddForm' = FALSE
               /\ editingItem' = Null
               /\ lastOp' = Op("add", "saved")
          ELSE /\ lastOp' = Op("add", "saveFailed")
               /\ UNCHANGED <<showAddForm, editingItem, formData>>

\* The item as it would be if updateItem made a new one of the form
UpdatedItemFresh == NewItem

\* The item updateItem puts in the place of the edited one
UpdatedItem ==
  Obj(SetKey(SetKey(SetKey(SetKey(Spread(editingItem),
        K_title, Get(formData, K_title)),
        K_subtitle, Get(formData, K_subtitle)),
        K_trigger, Get(formData, K_trigger)),
        K_data, Get(formData, K_data)))

\* updateItem, the form submitted with an item being edited
updateItem(written) ==
  LET index == findIndex(listItems, Get(editingItem, K_id)) IN
  IF index = 0
  THEN /\ lastOp' = Op("update", "notFound")
       /\ UNCHANGED <<listItems, showAddForm, editingItem, formData, storage>>
  ELSE /\ \E items \in {[listItems EXCEPT ![index] = UpdatedItem]} :
            WriteBack(items, written)
       /\ IF written
          THEN /\ formData' = EmptyForm
               /\ showAddForm' = FALSE
               /\ editingItem' = Null
               /\ lastOp' = Op("update", "saved")
          ELSE /\ lastOp' = Op("update", "saveFailed")
               /\ UNCHANGED <<showAddForm, editingItem, formData>>

\* The form's submit handler: editingItem ? updateItem() : addItem()
Submit(written) ==
  /\ route = "list-manager"
  /\ showAddForm
  /\ IF Truthy(editingItem) THEN updateItem(written) ELSE addItem(written)
  /\ UNCHANGED <<appVars, now, download, exportedFrom, searchVars, matchVars>>

\* The filter as it would be if deleteItem took out the first item of the id
\* only
WithoutFirst(items, id) ==
  IF findIndex(items, id) = 0 THEN items
  ELSE SubSeq(items, 1, findIndex(items, id) - 1)
       \o SubSeq(items, findIndex(items, id) + 1, Len(items))

\* listItems.value.filter(item => item.id !== id)
Without(items, id) == SelectSeq(items, LAMBDA item : Get(item, K_id) # id)

\* deleteItem(item.id), the delete button of a listed item.  The user answers
\* confirm().
deleteItem(i) ==
  /\ route = "list-manager"
  /\ i \in 1..Len(listItems)
  /\ \/ \E written \in BOOLEAN :
          /\ WriteBack(Without(listItems, Get(listItems[i], K_id)), written)
          /\ lastOp' = Op("delete", IF written THEN "saved" ELSE "saveFailed")
     \/ /\ lastOp' = Op("delete", "declined")
        /\ UNCHANGED <<listItems, storage>>
  /\ UNCHANGED <<appVars, showAddForm, editingItem, formData, now, download,
                 exportedFrom, searchVars, matchVars>>

\* clearAllData
clearAllData ==
  /\ route = "list-manager"
  /\ \/ \E written \in BOOLEAN :
          /\ WriteBack(<<>>, written)
          /\ lastOp' = Op("clear", IF written THEN "saved" ELSE "saveFailed")
     \/ /\ lastOp' = Op("clear", "declined")
        /\ UNCHANGED <<listItems, storage>>
  /\ UNCHANGED <<appVars, showAddForm, editingItem, formData, now, download,
                 exportedFrom, searchVars, matchVars>>

\* A millisecond passes
Tick ==
  /\ now < MaxClock
  /\ now' = now + 1
  /\ lastOp' = NoOp
  /\ UNCHANGED <<appVars, managerVars, storage, download, exportedFrom,
                 searchVars, matchVars>>

----------------------------------------------------------------------------
(* ListManager: export and import *)

\* The object exportData serializes
ExportObject ==
  Obj(<<<<K_version, Str(<<"1", ".", "0">>)>>,
        <<K_timestamp, ISOString>>,
        <<K_data, Arr(listItems)>>>>)

\* The text of the file exportData writes: JSON.stringify(exportData, null, 2)
ExportText == JSONstringify(ExportObject, 2)

\* exportData
exportData ==
  /\ route = "list-manager"
  /\ download' = Str(ExportText)
  /\ exportedFrom' = listItems
  /\ lastOp' = Op("export", "saved")
  /\ UNCHANGED <<appVars, managerVars, storage, now, searchVars, matchVars>>

\* The format check as it would be if it took a bare array only, if it took an
\* object with a data array only, and if it took any other content for no
\* items
DataToImportBareOnly(importedData) ==
  IF IsArray(importedData) THEN importedData ELSE Null

DataToImportWrappedOnly(importedData) ==
  IF Truthy(Get(importedData, K_data)) /\ IsArray(Get(importedData, K_data))
  THEN Get(importedData, K_data)
  ELSE Null

DataToImportDefaultEmpty(importedData) ==
  IF Truthy(Get(importedData, K_data)) /\ IsArray(Get(importedData, K_data))
  THEN Get(importedData, K_data)
  ELSE IF IsArray(importedData) THEN importedData
  ELSE Arr(<<>>)

\* The format check of importData on the parsed content: the array to import,
\* or Null
DataToImport(importedData) ==
  IF Truthy(Get(importedData, K_data)) /\ IsArray(Get(importedData, K_data))
  THEN Get(importedData, K_data)
  ELSE IF IsArray(importedData) THEN importedData
  ELSE Null

\* reader.onload of importData on what JSON.parse made of the file's content
\* ([ok, val]); src and content tell the history where the file came from and
\* what it held.  The user answers confirm(), and localStorage.setItem stores
\* or throws.
importParsed(parsed, src, content) ==
  LET importedData == parsed.val
      Ended(outcome, answer) ==
        lastOp' = [op |-> "import", outcome |-> outcome, src |-> src,
                   file |-> content, answer |-> answer]
  IN
  /\ route = "list-manager"
  /\ IF ~parsed.ok \/ importedData.k = "null"
     THEN \* JSON.parse or importedData.data throws: the catch block
          /\ Ended("importFailed", FALSE)
          /\ UNCHANGED <<listItems, storage>>
     ELSE \E dataToImport \in {DataToImport(importedData)} :
       IF Truthy(dataToImport) /\ Len(dataToImport.v) >= 0
       THEN \/ /\ Len(dataToImport.v) <= MaxItems
               /\ \E written \in BOOLEAN :
                    /\ WriteBack(dataToImport.v, written)
                    /\ Ended(IF written THEN "imported" ELSE "saveFailed", TRUE)
            \/ /\ Ended("declined", FALSE)
               /\ UNCHANGED <<listItems, storage>>
       ELSE /\ Ended("formatError", FALSE)
            /\ UNCHANGED <<listItems, storage>>
  /\ UNCHANGED <<appVars, showAddForm, editingItem, formData, now, download,
                 exportedFrom, searchVars, matchVars>>

importData(content, src) ==
  \E parsed \in {JSONparse(content)} : importParsed(parsed, src, content)

\* Importing the file exportData wrote last
ImportDownload ==
  /\ download # Null
  /\ importData(download.v, "export")

\* Items a file from elsewhere may hold: import does not validate them
SpecialText == <<QUOTE, "a", NL, BSL>>

WellFormedItem == ListItem(<<"1">>, <<"a">>, <<>>, <<"b">>, SpecialText)

ShortItem == Obj(<<<<K_id, Str(<<"1">>)>>, <<K_title, Str(<<"A">>)>>>>)

\* The files from elsewhere the user may pick: of the two shapes importData
\* takes
GoodFiles ==
  { JSONstringify(Arr(<<>>), 0),
    JSONstringify(Arr(<<ShortItem>>), 2),
    JSONstringify(Obj(<<<<K_data, Arr(<<>>)>>>>), 2),
    JSONstringify(Obj(<<<<K_version, Str(<<"1", ".", "0">>)>>,
                        <<K_data, Arr(<<WellFormedItem, ShortItem>>)>>>>), 0) }

\* of other shapes
BadShapeFiles ==
  { JSONstringify(Num(5), 0),
    JSONstringify(Num(0), 0),
    JSONstringify(Str(<<"a">>), 0),
    JSONstringify(Str(<<>>), 0),
    JSONstringify(Null, 0),
    JSONstringify(Obj(<<>>), 0),
    JSONstringify(Obj(<<<<K_version, Str(<<"1", ".", "0">>)>>>>), 2),
    JSONstringify(Obj(<<<<K_data, Str(<<"a">>)>>>>), 0),
    JSONstringify(Obj(<<<<K_data, Null>>>>), 0),
    JSONstringify(Obj(<<<<K_data, Num(1)>>>>), 0),
    JSONstringify(Obj(<<<<K_data, Obj(<<<<K_id, Str(<<"1">>)>>>>)>>>>), 0) }

\* and not JSON at all
BrokenFiles == { <<"{">>, <<"[", "1", ",">>, <<"a">>, <<>> }

ImportGood == \E content \in GoodFiles : importData(content, "good")

ImportBadShape == \E content \in BadShapeFiles : importData(content, "badShape")

ImportBroken == \E content \in BrokenFiles : importData(content, "broken")

----------------------------------------------------------------------------
(* The item store: ListManager shown on storage that holds nothing yet *)

SearchIdle ==
  /\ searchItems = <<>>
  /\ searchKeyword = <<>>
  /\ selectedIndex = 0
  /\ keydownListeners = 0
  /\ timerPending = FALSE
  /\ staleTimers = <<>>
  /\ calls = <<>>
  /\ enters = 0

MatchIdle ==
  /\ matchInput = [items |-> <<>>, query |-> <<>>]
  /\ matchOutput = Null

InitStore ==
  /\ route = "list-manager"
  /\ enterAction = Str(<<>>)
  /\ listItems = <<>>
  /\ showAddForm = FALSE
  /\ editingItem = Null
  /\ formData = EmptyForm
  /\ storage = Null
  /\ now = 0
  /\ download = Null
  /\ exportedFrom = <<>>
  /\ lastOp = NoOp
  /\ SearchIdle
  /\ MatchIdle

NextStore ==
  \/ OpenAddForm
  \/ \E key \in {K_title, K_subtitle, K_trigger, K_data} :
       \E text \in FieldValues(key) : SetField(key, text)
  \/ resetForm
  \/ \E i \in 1..MaxItems : editItem(i)
  \/ \E written \in BOOLEAN : Submit(written)
  \/ \E i \in 1..MaxItems : deleteItem(i)
  \/ clearAllData
  \/ Tick

SpecStore == InitStore /\ [][NextStore]_vars

----------------------------------------------------------------------------
(* Export and import: ListManager shown on a collection that was stored *)

\* An item that lacked subtitle and data when it was imported, after
\* updateItem: the spread form gave both as undefined
UpdatedForeignItem ==
  Obj(<<<<K_id, Str(<<"1">>)>>, <<K_title, Str(<<"a">>)>>,
        <<K_subtitle, Undefined>>, <<K_trigger, Str(<<"b">>)>>,
        <<K_data, Undefined>>>>)

StoredItems == {WellFormedItem, UpdatedForeignItem}

RECURSIVE SeqsUpTo(_, _)
SeqsUpTo(S, n) ==
  IF n = 0 THEN {<<>>}
  ELSE LET shorter == SeqsUpTo(S, n - 1) IN
       shorter \cup {Append(q, x) : q \in shorter, x \in S}

InitCodec ==
  /\ route = "list-manager"
  /\ enterAction = Str(<<>>)
  /\ listItems \in SeqsUpTo(StoredItems, MaxItems)
  /\ showAddForm = FALSE
  /\ editingItem = Null
  /\ formData = EmptyForm
  /\ storage = saveData(listItems)
  /\ now = 0
  /\ download = Null
  /\ exportedFrom = <<>>
  /\ lastOp = NoOp
  /\ SearchIdle
  /\ MatchIdle

NextCodec ==
  \/ exportData
  \/ ImportDownload
  \/ ImportGood
  \/ ImportBadShape
  \/ ImportBroken

SpecCodec == InitCodec /\ [][NextCodec]_vars

----------------------------------------------------------------------------
(* ListSearch *)

\* The computed matchedItems of the mounted ListSearch
matchedItems == matchedItemsOf(searchItems, searchKeyword)

\* A call on window.utools: by names the handler that made it, and live tells
\* whether the ListSearch instance that made it was mounted
Call(fn, arg, by, live) == [fn |-> fn, arg |-> arg, by |-> by, live |-> live]

\* The calls as they would be if copySelectedItem hid the window first
CopyCallsHideFirst(items, index, by, live) ==
  IF Len(items) > 0 /\ index < Len(items)
  THEN <<Call("hideMainWindow", Null, by, live),
         Call("copyText", Get(items[index + 1], K_data), by, live),
         Call("outPlugin", Null, by, live)>>
  ELSE <<>>

\* The calls copySelectedItem makes for a list of matched items and a selected
\* index
CopyCalls(items, index, by, live) ==
  IF Len(items) > 0 /\ index < Len(items)
  THEN <<Call("copyText", Get(items[index + 1], K_data), by, live),
         Call("hideMainWindow", Null, by, live),
         Call("outPlugin", Null, by, live)>>
  ELSE <<>>

\* copySelectedItem of the mounted ListSearch; nothing where matchedItems
\* throws.  MaxCalls bounds the calls of keys and clicks; a timer fires once.
copySelectedItem(by) ==
  /\ by = "timer" \/ Len(calls) + 3 <= MaxCalls
  /\ calls' = IF matchedItems.ok
              THEN calls \o CopyCalls(matchedItems.val, selectedIndex, by, TRUE)
              ELSE calls

\* ArrowDown as it would be if it wrapped around to the first item
ArrowDownWraps(index, length) == IF index < length - 1 THEN index + 1 ELSE 0

\* What ArrowDown and ArrowUp make of the selected index
ArrowDown(index, length) == IF index < length - 1 THEN index + 1 ELSE index

ArrowUp(index) == IF index > 0 THEN index - 1 ELSE index

\* handleKeydown, the keydown listener of the mounted ListSearch
handleKeydown(key) ==
  /\ route = "list-search"
  /\ keydownListeners > 0
  /\ CASE key = "ArrowDown" ->
            /\ selectedIndex' =
                 IF matchedItems.ok
                 THEN ArrowDown(selectedIndex, Len(matchedItems.val))
                 ELSE selectedIndex
            /\ UNCHANGED calls
       [] key = "ArrowUp" ->
            /\ selectedIndex' = ArrowUp(selectedIndex)
            /\ UNCHANGED calls
       [] key = "Enter" ->
            /\ copySelectedItem("Enter")
            /\ UNCHANGED selectedIndex
       [] key = "Escape" ->
            /\ Len(calls) + 1 <= MaxCalls
            /\ calls' = Append(calls, Call("outPlugin", Null, "Escape", TRUE))
            /\ UNCHANGED selectedIndex
  /\ UNCHANGED <<appVars, managerVars, hostVars, lastOp, searchItems,
                 searchKeyword, keydownListeners, timerPending, staleTimers,
                 enters, matchVars>>

\* selectItem(index), the click on a listed item
selectItem(index) ==
  /\ route = "list-search"
  /\ matchedItems.ok
  /\ index \in 0..(Len(matchedItems.val) - 1)
  /\ selectedIndex' = index
  /\ Len(calls) + 3 <= MaxCalls
  /\ calls' = calls \o CopyCalls(matchedItems.val, index, "click", TRUE)
  /\ UNCHANGED <<appVars, managerVars, hostVars, lastOp, searchItems,
                 searchKeyword, keydownListeners, timerPending, staleTimers,
                 enters, matchVars>>

\* The callback of the setTimeout of onMounted, ListSearch still mounted
TimerFires ==
  /\ route = "list-search"
  /\ timerPending
  /\ timerPending' = FALSE
  /\ copySelectedItem("timer")
  /\ UNCHANGED <<appVars, managerVars, hostVars, lastOp, searchItems,
                 searchKeyword, selectedIndex, keydownListeners, staleTimers,
                 enters, matchVars>>

\* The same callback once its ListSearch was unmounted: nothing cleared the
\* timer, and the callback reads the refs its instance left behind
StaleTimerFires(n) ==
  /\ n \in 1..Len(staleTimers)
  /\ Len(calls) + 3 <= MaxCalls
  /\ calls' = calls \o CopyCalls(staleTimers[n].matched, staleTimers[n].index,
                                 "timer", FALSE)
  /\ staleTimers' = [i \in 1..(Len(staleTimers) - 1) |->
                       IF i < n THEN staleTimers[i] ELSE staleTimers[i + 1]]
  /\ UNCHANGED <<appVars, managerVars, hostVars, lastOp, searchItems,
                 searchKeyword, selectedIndex, keydownListeners, timerPending,
                 enters, matchVars>>

----------------------------------------------------------------------------
(* App: the views mounted and unmounted as route changes *)

\* The last place k >= i - 1 with only white space in p[i..k]
RECURSIVE SpaceRunEnd(_, _)
SpaceRunEnd(p, i) ==
  IF i <= Len(p) /\ IsSpace(p[i]) THEN SpaceRunEnd(p, i + 1) ELSE i - 1

Min(a, b) == IF a < b THEN a ELSE b

\* action.payload.match(/^wj\s+(.+)$/): [ok, group], group being match[1].
\* \s+ takes all the white space it can and leaves (.+) one character at
\* least; the dot takes no line terminator.
MatchKeyword(p) ==
  LET k == Min(SpaceRunEnd(p, 3), Len(p) - 1)
      group == SubSeq(p, k + 1, Len(p))
  IN IF /\ startsWith(p, <<"w", "j">>)
        /\ k >= 3
        /\ \A i \in 1..Len(group) : group[i] \notin {NL, "\r"}
     THEN [ok |-> TRUE, group |-> group]
     ELSE [ok |-> FALSE, group |-> <<>>]

\* The payload as it would be if the callback left the captured text as it is
EnterPayloadNoTrim(code, payload) ==
  IF code = "list-search" /\ Truthy(payload)
     /\ MatchKeyword(payload.v).ok /\ MatchKeyword(payload.v).group # <<>>
  THEN Str(MatchKeyword(payload.v).group)
  ELSE payload

\* The payload the onPluginEnter callback leaves in the action
EnterPayload(code, payload) ==
  IF code = "list-search" /\ Truthy(payload)
     /\ MatchKeyword(payload.v).ok /\ MatchKeyword(payload.v).group # <<>>
  THEN Str(trim(MatchKeyword(payload.v).group))
  ELSE payload

\* The removal as it would be if onUnmounted left the listener registered
UnmountSearchKeepsListener ==
  /\ UNCHANGED keydownListeners
  /\ timerPending' = FALSE
  /\ staleTimers' =
       IF timerPending /\ matchedItems.ok
       THEN Append(staleTimers, [matched |-> matchedItems.val,
                                 index |-> selectedIndex])
       ELSE staleTimers
  /\ searchItems' = <<>>
  /\ searchKeyword' = <<>>
  /\ selectedIndex' = 0

\* ListSearch is removed: onUnmounted removes the listener, and a timer still
\* pending stays with what its callback will read
UnmountSearch ==
  /\ keydownListeners' = keydownListeners - 1
  /\ timerPending' = FALSE
  /\ staleTimers' =
       IF timerPending /\ matchedItems.ok
       THEN Append(staleTimers, [matched |-> matchedItems.val,
                                 index |-> selectedIndex])
       ELSE staleTimers
  /\ searchItems' = <<>>
  /\ searchKeyword' = <<>>
  /\ selectedIndex' = 0

\* The condition as it would be if the first of several candidates were enough
AutoCommitFirst(items, keyword) ==
  /\ items.ok
  /\ Len(items.val) >= 1
  /\ LowerOf(items.val[1], K_trigger) = toLowerCase(keyword)

\* The condition under which onMounted sets the timer
AutoCommit(items, keyword) ==
  /\ items.ok
  /\ Len(items.val) = 1
  /\ LowerOf(items.val[1], K_trigger) = toLowerCase(keyword)

\* ListSearch is created and onMounted runs with the action's payload
MountSearch(payload) ==
  \E items \in {loadData(storage, <<>>)},
     keyword \in {IF Truthy(payload) THEN payload.v ELSE <<>>} :
    /\ searchItems' = items
    /\ searchKeyword' = keyword
    /\ selectedIndex' = 0
    /\ keydownListeners' = keydownListeners + 1
    /\ timerPending' = AutoCommit(matchedItemsOf(items, keyword), keyword)
    /\ UNCHANGED staleTimers

\* ListManager is created and onMounted runs
MountManager ==
  /\ listItems' = loadData(storage, <<>>)
  /\ showAddForm' = FALSE
  /\ editingItem' = Null
  /\ formData' = EmptyForm

\* ListManager is removed, and its state with it
UnmountManager ==
  /\ listItems' = <<>>
  /\ showAddForm' = FALSE
  /\ editingItem' = Null
  /\ formData' = EmptyForm

\* The views follow route from its old value to its new one
Render(old, new, payload) ==
  /\ IF old = new THEN UNCHANGED <<managerVars, searchItems, searchKeyword,
                                   selectedIndex, keydownListeners,
                                   timerPending, staleTimers>>
     ELSE /\ CASE old = "list-search" -> UnmountSearch
               [] new = "list-search" -> MountSearch(payload)
               [] OTHER -> UNCHANGED <<searchItems, searchKeyword, selectedIndex,
                                       keydownListeners, timerPending,
                                       staleTimers>>
          /\ CASE old = "list-manager" -> UnmountManager
               [] new = "list-manager" -> MountManager
               [] OTHER -> UNCHANGED managerVars

\* The payloads the host enters the plugin with
Payloads ==
  { <<>>, <<"a">>, <<"A">>, <<"b">>,
    <<"w", "j", " ", "a">>, <<"w", "j", " ", " ", "A", "b", " ">>,
    <<"w", "j", " ">> }

\* The callback given to onPluginEnter; the history keeps the payload the host
\* gave
PluginEnter(code, payload) ==
  /\ enters < MaxEnters
  /\ enters' = enters + 1
  /\ route' = code
  /\ enterAction' = EnterPayload(code, payload)
  /\ Render(route, code, EnterPayload(code, payload))
  /\ lastOp' = [op |-> "enter", outcome |-> code, src |-> "none",
                file |-> payload.v, answer |-> FALSE]
  /\ UNCHANGED <<hostVars, calls, matchVars>>

\* The callback given to onPluginOut
PluginOut ==
  /\ route # ""
  /\ route' = ""
  /\ Render(route, "", enterAction)
  /\ lastOp' = NoOp
  /\ UNCHANGED <<enterAction, hostVars, calls, enters, matchVars>>

----------------------------------------------------------------------------
(* The search session: the plugin entered and left on a stored collection *)

ItemA == ListItem(<<"1">>, <<"x">>, <<>>, <<"a">>, <<"p">>)
ItemAb == ListItem(<<"2">>, <<"x">>, <<>>, <<"A", "b">>, <<"q">>)
ItemB == ListItem(<<"3">>, <<"a">>, <<>>, <<"b">>, <<>>)

\* What storage may hold when the plugin is entered
Stores ==
  { Null,
    saveData(<<ItemA>>),
    saveData(<<ItemAb, ItemA>>),
    saveData(<<ItemB, ItemAb, ItemA>>),
    saveData(<<ItemA, ShortItem>>) }

InitSearch ==
  /\ route = ""
  /\ enterAction = Undefined
  /\ listItems = <<>>
  /\ showAddForm = FALSE
  /\ editingItem = Null
  /\ formData = EmptyForm
  /\ storage \in Stores
  /\ now = 0
  /\ download = Null
  /\ exportedFrom = <<>>
  /\ lastOp = NoOp
  /\ SearchIdle
  /\ MatchIdle

NextSearch ==
  \/ \E payload \in Payloads : PluginEnter("list-search", Str(payload))
  \/ PluginEnter("list-manager", Str(<<>>))
  \/ PluginOut
  \/ \E key \in {"ArrowDown", "ArrowUp", "Enter", "Escape"} : handleKeydown(key)
  \/ \E index \in 0..(MaxItems + 1) : selectItem(index)
  \/ TimerFires
  \/ \E n \in 1..MaxEnters : StaleTimerFires(n)

SpecSearch == InitSearch /\ [][NextSearch]_vars

\* The event loop runs the callback of a timer that is due
SpecSearchFair == SpecSearch /\ WF_vars(TimerFires)

----------------------------------------------------------------------------
(* Persistence: the collection changed by ListManager, stored, and loaded
   again by either view when the plugin is entered anew *)

NextPersist ==
  \/ OpenAddForm
  \/ SetField(K_title, <<"a">>)
  \/ SetField(K_trigger, <<"b">>)
  \/ \E i \in 1..MaxItems : editItem(i)
  \/ \E written \in BOOLEAN : Submit(written)
  \/ \E i \in 1..MaxItems : deleteItem(i)
  \/ clearAllData
  \/ ImportGood
  \/ PluginOut
  \/ PluginEnter("list-manager", Str(<<>>))
  \/ PluginEnter("list-search", Str(<<>>))

SpecPersist == InitStore /\ [][NextPersist]_vars

----------------------------------------------------------------------------
(* Imported items in the search view: the collection changed by ListManager,
   files from elsewhere among its sources, and ListSearch entered on it with
   a keyword *)

\* The keywords the search view is entered with
ForeignKeywords == { <<"a">>, <<"b">> }

NextForeign ==
  \/ OpenAddForm
  \/ SetField(K_title, <<"a">>)
  \/ SetField(K_trigger, <<"b">>)
  \/ \E i \in 1..MaxItems : editItem(i)
  \/ \E written \in BOOLEAN : Submit(written)
  \/ \E i \in 1..MaxItems : deleteItem(i)
  \/ clearAllData
  \/ ImportGood
  \/ PluginOut
  \/ PluginEnter("list-manager", Str(<<>>))
  \/ \E payload \in ForeignKeywords : PluginEnter("list-search", Str(payload))

SpecForeign == InitStore /\ [][NextForeign]_vars

----------------------------------------------------------------------------
(* matchedItems as a function of a collection and a query *)

\* The item at place n of a collection, its id the digits of n
MatchItem(n, texts) ==
  ListItem(NumToString(n), texts[2], texts[3], texts[1], <<>>)

\* The <<trigger, title, subtitle>> of the items matched
MatchTexts ==
  { <<<<"A">>, <<"x">>, <<>>>>,
    <<<<"a", "b">>, <<"x">>, <<>>>>,
    <<<<"b", "a">>, <<"x">>, <<>>>>,
    <<<<"b">>, <<"X", "a">>, <<>>>>,
    <<<<"b">>, <<"x">>, <<"B", "A">>>>,
    <<<<"x">>, <<"x">>, <<"x">>>> }

MatchQueries == { <<>>, <<"a">>, <<"A">>, <<"b">>, <<"a", "b">>, <<"B", "a">> }

MatchCollections ==
  { [n \in 1..Len(q) |-> MatchItem(n, q[n])] : q \in SeqsUpTo(MatchTexts, MaxMatchItems) }

InitMatch ==
  /\ route = ""
  /\ enterAction = Undefined
  /\ listItems = <<>>
  /\ showAddForm = FALSE
  /\ editingItem = Null
  /\ formData = EmptyForm
  /\ storage = Null
  /\ now = 0
  /\ download = Null
  /\ exportedFrom = <<>>
  /\ lastOp = NoOp
  /\ SearchIdle
  /\ matchInput \in [items : MatchCollections, query : MatchQueries]
  /\ matchOutput = Null

\* matchedItems is computed for the input
ComputeMatch ==
  /\ matchOutput = Null
  /\ matchOutput' = Arr(matchedItemsOf(matchInput.items, matchInput.query).val)
  /\ UNCHANGED <<appVars, managerVars, hostVars, lastOp, searchVars, matchInput>>

NextMatch == ComputeMatch

SpecMatch == InitMatch /\ [][NextMatch]_vars

----------------------------------------------------------------------------
(* The plugin as a whole, entered on storage that holds nothing yet *)

Init ==
  /\ route = ""
  /\ enterAction = Undefined
  /\ listItems = <<>>
  /\ showAddForm = FALSE
  /\ editingItem = Null
  /\ formData = EmptyForm
  /\ storage = Null
  /\ now = 0
  /\ download = Null
  /\ exportedFrom = <<>>
  /\ lastOp = NoOp
  /\ SearchIdle
  /\ MatchIdle

Next ==
  \/ NextSearch
  \/ NextStore
  \/ NextCodec

Spec == Init /\ [][Next]_vars

----------------------------------------------------------------------------
(* The claims *)

\* Case-insensitive comparison of a text with a query, character by character
SameText(s, q) ==
  Len(s) = Len(q) /\ \A i \in 1..Len(q) : LowerChar(s[i]) = LowerChar(q[i])

HasPrefix(s, q) ==
  Len(q) <= Len(s) /\ \A i \in 1..Len(q) : LowerChar(s[i]) = LowerChar(q[i])

Contains(s, q) ==
  \E k \in 0..(Len(s) - Len(q)) :
    \A i \in 1..Len(q) : LowerChar(s[k + i]) = LowerChar(q[i])

TextOf(item, key) == Get(item, key).v

IsCandidate(item, q) ==
  \/ Contains(TextOf(item, K_trigger), q)
  \/ Contains(TextOf(item, K_title), q)
  \/ Contains(TextOf(item, K_subtitle), q)

\* The rank of an item for a query: 0 trigger equals it, 1 trigger starts with
\* it, 2 otherwise
RankOf(item, q) ==
  IF SameText(TextOf(item, K_trigger), q) THEN 0
  ELSE IF HasPrefix(TextOf(item, K_trigger), q) THEN 1
  ELSE 2

Computed == matchOutput # Null

\* C1: once a search session has ended with its settle timer pending, the
\* timer makes no call on the host: every call a timer made, it made while its
\* ListSearch was mounted.
C1_NoTimerCallAfterSessionEnd ==
  \A i \in 1..Len(calls) : calls[i].by = "timer" => calls[i].live

\* C2: while the search view is mounted, selectedIndex is within
\* [0, len(candidates) - 1] when there are candidates and 0 when there are
\* none, and a step that moves it without committing moves it by one place: it
\* never wraps around.
C2_IndexInRange ==
  (route = "list-search" /\ matchedItems.ok) =>
     IF Len(matchedItems.val) > 0
     THEN selectedIndex \in 0..(Len(matchedItems.val) - 1)
     ELSE selectedIndex = 0

C2_MovesByOne ==
  (route = "list-search" /\ route' = "list-search" /\ calls' = calls
     /\ selectedIndex' # selectedIndex)
  => selectedIndex' \in {selectedIndex - 1, selectedIndex + 1}

C2_SelectedIndexStaysInRange == [](C2_IndexInRange) /\ [][C2_MovesByOne]_vars

C2_Witness_MovedToLast ==
  /\ route = "list-search"
  /\ matchedItems.ok
  /\ Len(matchedItems.val) = 3
  /\ selectedIndex = 2

\* C3: in the output of matchedItems for a non-empty query, no entry whose
\* trigger does not equal the query comes before one whose trigger equals it.
C3_ExactMatchesFirst ==
  (Computed /\ matchInput.query # <<>>) =>
     \A i \in 1..Len(matchOutput.v) : \A j \in (i + 1)..Len(matchOutput.v) :
       RankOf(matchOutput.v[j], matchInput.query) = 0
         => RankOf(matchOutput.v[i], matchInput.query) = 0

C3_Witness_ExactMovedForward ==
  /\ Computed
  /\ Len(matchInput.items) = 3
  /\ Len(matchOutput.v) = 3
  /\ RankOf(matchInput.items[1], matchInput.query) = 2
  /\ RankOf(matchInput.items[2], matchInput.query) = 1
  /\ RankOf(matchInput.items[3], matchInput.query) = 0
  /\ matchOutput.v[1] = matchInput.items[3]

\* C4: the output of matchedItems for a non-empty query is the candidates of
\* rank 0, then those of rank 1, then those of rank 2, each rank in collection
\* order; and the sort callback is a strict weak ordering on the collection's
\* items whose ties are the items of equal rank.
RankedCandidates(items, q, rank) ==
  SelectSeq(items, LAMBDA item : IsCandidate(item, q) /\ RankOf(item, q) = rank)

StrictWeakOrder(items, q) ==
  LET less(a, b) == SortCompare(a, b, toLowerCase(q)) < 0
      tied(a, b) == SortCompare(a, b, toLowerCase(q)) = 0
      S == {items[i] : i \in 1..Len(items)}
  IN /\ \A a \in S : ~less(a, a)
     /\ \A a \in S, b \in S : less(a, b) => ~less(b, a)
     /\ \A a \in S, b \in S : less(a, b) <=> SortCompare(b, a, toLowerCase(q)) > 0
     /\ \A a \in S, b \in S, c \in S : (less(a, b) /\ less(b, c)) => less(a, c)
     /\ \A a \in S, b \in S : tied(a, b) <=> RankOf(a, q) = RankOf(b, q)

C4_ThreeRanksInCollectionOrder ==
  (Computed /\ matchInput.query # <<>>) =>
     /\ matchOutput.v = RankedCandidates(matchInput.items, matchInput.query, 0)
                        \o RankedCandidates(matchInput.items, matchInput.query, 1)
                        \o RankedCandidates(matchInput.items, matchInput.query, 2)
     /\ StrictWeakOrder(matchInput.items, matchInput.query)

C4_Witness_TieKeptBehindPrefix ==
  /\ Computed
  /\ Len(matchOutput.v) = 3
  /\ RankOf(matchInput.items[1], matchInput.query) = 2
  /\ RankOf(matchInput.items[2], matchInput.query) = 2
  /\ RankOf(matchInput.items[3], matchInput.query) = 1
  /\ matchOutput.v = <<matchInput.items[3], matchInput.items[1], matchInput.items[2]>>

\* C5: matchedItems returns nothing for the empty query and, for another
\* query, each item of the collection that contains the query in its trigger,
\* title or subtitle, case-insensitively, once, and no other item.
C5_ExactlyTheCandidates ==
  Computed =>
    IF matchInput.query = <<>> THEN matchOutput.v = <<>>
    ELSE /\ {matchOutput.v[i] : i \in 1..Len(matchOutput.v)}
            = {matchInput.items[i] : i \in
                 {n \in 1..Len(matchInput.items) :
                    IsCandidate(matchInput.items[n], matchInput.query)}}
         /\ \A i \in 1..Len(matchOutput.v) : \A j \in 1..Len(matchOutput.v) :
              matchOutput.v[i] = matchOutput.v[j] => i = j

C5_Witness_InnerSubstringOfTrigger ==
  /\ Computed
  /\ matchInput.query = <<"a">>
  /\ Len(matchInput.items) = 2
  /\ TextOf(matchInput.items[1], K_trigger) = <<"b", "a">>
  /\ ~Contains(TextOf(matchInput.items[1], K_title), <<"a">>)
  /\ ~IsCandidate(matchInput.items[2], <<"a">>)
  /\ matchOutput.v = <<matchInput.items[1]>>

\* C6: no two items of the collection have the same id.
C6_IdsUnique ==
  \A i \in 1..Len(listItems) : \A j \in 1..Len(listItems) :
    Get(listItems[i], K_id) = Get(listItems[j], K_id) => i = j

\* C7: every item of the collection has a non-empty title and a non-empty
\* trigger.
C7_TitleAndTriggerNonEmpty ==
  \A i \in 1..Len(listItems) :
    /\ Get(listItems[i], K_title) # Str(<<>>)
    /\ Get(listItems[i], K_trigger) # Str(<<>>)

\* C8: a handler whose write to storage failed leaves the collection in memory
\* as it was before the handler ran.
C8_FailedWriteKeepsCollection ==
  [][lastOp'.outcome = "saveFailed" => listItems' = listItems]_vars

\* C9: importing the file exportData wrote is never refused for its format
\* and, once confirmed, leaves the collection that was exported, item for item
\* and field for field in the same order (the very same items where none has a
\* property holding undefined); and exportData leaves the collection as it was.
KeysOf(item) == {item.v[i][1] : i \in 1..Len(item.v)}

FieldForField(a, b) ==
  /\ Len(a) = Len(b)
  /\ \A i \in 1..Len(a) :
       /\ a[i].k = b[i].k
       /\ \A key \in KeysOf(a[i]) \cup KeysOf(b[i]) :
            Get(a[i], key) = Get(b[i], key)

NoUndefinedProperty(items) ==
  \A i \in 1..Len(items) : \A n \in 1..Len(items[i].v) :
    items[i].v[n][2] # Undefined

C9_ExportImportRoundTrip ==
  /\ (lastOp.op = "import" /\ lastOp.src = "export") =>
        lastOp.outcome \in {"imported", "saveFailed", "declined"}
  /\ (lastOp.op = "import" /\ lastOp.src = "export" /\ lastOp.answer) =>
        /\ FieldForField(listItems, exportedFrom)
        /\ NoUndefinedProperty(exportedFrom) => listItems = exportedFrom
  /\ lastOp.op = "export" => listItems = exportedFrom

C9_Witness_ImportedOwnExport ==
  /\ lastOp.op = "import"
  /\ lastOp.src = "export"
  /\ lastOp.outcome = "imported"
  /\ exportedFrom = <<UpdatedForeignItem, WellFormedItem>>
  /\ listItems # exportedFrom
  /\ listItems[2] = WellFormedItem

\* C10: importing a file whose content is neither an object with a data array
\* nor an array ends in the format alert or in the catch block's alert, and
\* leaves the collection in memory and the stored one as they were.
NeitherShape(x) == ~IsArray(x) /\ ~IsArray(Get(x, K_data))

C10_BadShapeStep ==
  (lastOp'.op = "import" /\ lastOp'.src = "badShape") =>
     /\ lastOp'.outcome \in {"formatError", "importFailed"}
     /\ listItems' = listItems
     /\ storage' = storage

C10_BadShapeLeavesCollection ==
  /\ \A content \in BadShapeFiles :
       JSONparse(content).ok /\ NeitherShape(JSONparse(content).val)
  /\ [][C10_BadShapeStep]_vars

C10_Witness_FormatError ==
  /\ lastOp.op = "import"
  /\ lastOp.src = "badShape"
  /\ lastOp.outcome = "formatError"
  /\ Len(listItems) = 2
  /\ storage = saveData(listItems)

\* C11: a confirmed import of a file of either accepted shape whose write
\* succeeds leaves, in memory and in storage, the items of the file in the
\* file's order and nothing else; a file of either shape is never refused; a
\* declined import leaves both as they were.
GoodFileItems ==
  { [file |-> JSONstringify(Arr(<<>>), 0), items |-> <<>>],
    [file |-> JSONstringify(Arr(<<ShortItem>>), 2), items |-> <<ShortItem>>],
    [file |-> JSONstringify(Obj(<<<<K_data, Arr(<<>>)>>>>), 2), items |-> <<>>],
    [file |-> JSONstringify(Obj(<<<<K_version, Str(<<"1", ".", "0">>)>>,
                                  <<K_data, Arr(<<WellFormedItem, ShortItem>>)>>>>), 0),
     items |-> <<WellFormedItem, ShortItem>>] }

C11_GoodFileStep ==
  (lastOp'.op = "import" /\ lastOp'.src = "good") =>
     /\ lastOp'.outcome \in {"imported", "saveFailed", "declined"}
     /\ lastOp'.outcome = "imported" =>
          \E g \in GoodFileItems :
            /\ g.file = lastOp'.file
            /\ listItems' = g.items
            /\ storage'.k = "str"
            /\ JSONparse(storage'.v) = [ok |-> TRUE, val |-> Arr(g.items)]
     /\ lastOp'.outcome = "declined" =>
          listItems' = listItems /\ storage' = storage

C11_ImportReplaces ==
  /\ GoodFiles = {g.file : g \in GoodFileItems}
  /\ [][C11_GoodFileStep]_vars

C11_Witness_Replaced ==
  /\ lastOp.op = "import"
  /\ lastOp.src = "good"
  /\ lastOp.outcome = "imported"
  /\ listItems = <<WellFormedItem, ShortItem>>
  /\ exportedFrom = <<UpdatedForeignItem, WellFormedItem>>
  /\ download # Null

\* C12: addItem appends the new item after the items held, which stay as they
\* are; updateItem leaves the collection's length, puts an item of the same id
\* at one place and leaves every other place as it was; and what loadData
\* reads after a write that succeeded is the collection in the same order.
IsAppended(before, after) ==
  /\ Len(after) = Len(before) + 1
  /\ \A i \in 1..Len(before) : after[i] = before[i]

IsUpdatedInPlace(before, after) ==
  /\ Len(after) = Len(before)
  /\ \E i \in 1..Len(before) :
       /\ Get(after[i], K_id) = Get(before[i], K_id)
       /\ \A j \in 1..Len(before) : j # i => after[j] = before[j]

C12_OrderStep ==
  /\ (lastOp'.op = "add" /\ lastOp'.outcome \in {"saved", "saveFailed"}) =>
        /\ IsAppended(listItems, listItems')
        /\ Get(listItems'[Len(listItems')], K_title) = Get(formData, K_title)
        /\ Get(listItems'[Len(listItems')], K_trigger) = Get(formData, K_trigger)
  /\ (lastOp'.op = "update" /\ lastOp'.outcome \in {"saved", "saveFailed"}) =>
        IsUpdatedInPlace(listItems, listItems')
  /\ (lastOp'.op \in {"add", "update"} /\ lastOp'.outcome = "saved") =>
        loadData(storage', <<>>) = listItems'

C12_InsertionOrderKept == [][C12_OrderStep]_vars

C12_Witness_UpdatedFirstOfTwo ==
  /\ lastOp.op = "update"
  /\ lastOp.outcome = "saved"
  /\ Len(listItems) = 2
  /\ Get(listItems[1], K_id) = Str(<<"0">>)
  /\ Get(listItems[2], K_id) = Str(<<"1">>)
  /\ Get(listItems[1], K_title) = Str(<<>>)
  /\ Get(listItems[2], K_title) = Str(<<"a">>)

\* C13: deleteItem's filter applied again with the same id gives the
\* collection it gave the first time, in memory and as stored, and applied
\* with an id no item has it gives the collection as it is.
ProbeIds == {Str(NumToString(n)) : n \in 0..(MaxClock + 1)}

HasId(items, id) == \E i \in 1..Len(items) : Get(items[i], K_id) = id

C13_RemoveOnReachable ==
  \A id \in ProbeIds :
    /\ Without(Without(listItems, id), id) = Without(listItems, id)
    /\ ~HasId(Without(listItems, id), id)
    /\ ~HasId(listItems, id) => Without(listItems, id) = listItems

C13_DeleteStep ==
  (lastOp'.op = "delete" /\ lastOp'.outcome = "saved") =>
     \E i \in 1..Len(listItems) :
       /\ ~HasId(listItems', Get(listItems[i], K_id))
       /\ Without(listItems', Get(listItems[i], K_id)) = listItems'
       /\ saveData(Without(listItems', Get(listItems[i], K_id))) = storage'

C13_RemoveIdempotent == [](C13_RemoveOnReachable) /\ [][C13_DeleteStep]_vars

C13_Witness_RemovedOneOfTwo ==
  /\ lastOp.op = "delete"
  /\ lastOp.outcome = "saved"
  /\ Len(listItems) = 1
  /\ Get(listItems[1], K_id) = Str(<<"1">>)
  /\ storage = saveData(listItems)

\* C14: updateItem on an edited item whose id no item of the collection has
\* tells the user so, by an alert or an exception.
C14_AbsentIdReported ==
  (lastOp.op = "update" /\ lastOp.outcome = "notFound") =>
     Reports(lastOp.op, lastOp.outcome) # "none"

\* C15: the calls a mounted ListSearch adds in one step are either the single
\* outPlugin of Escape or, with candidates present, copyText of the data of
\* the candidate at selectedIndex, then hideMainWindow, then outPlugin; and
\* copySelectedItem makes exactly these three calls where there are candidates
\* and none where there are none.
CommitCalls(item, by) ==
  <<[fn |-> "copyText", arg |-> Get(item, K_data), by |-> by, live |-> TRUE],
    [fn |-> "hideMainWindow", arg |-> Null, by |-> by, live |-> TRUE],
    [fn |-> "outPlugin", arg |-> Null, by |-> by, live |-> TRUE]>>

C15_CommitOnReachable ==
  (route = "list-search" /\ matchedItems.ok) =>
     \A by \in {"Enter", "click", "timer"} :
       CopyCalls(matchedItems.val, selectedIndex, by, TRUE)
         = IF Len(matchedItems.val) = 0 THEN <<>>
           ELSE CommitCalls(matchedItems.val[selectedIndex + 1], by)

C15_CommitStep ==
  (calls' # calls) =>
     /\ Len(calls') > Len(calls)
     /\ SubSeq(calls', 1, Len(calls)) = calls
     /\ calls'[Len(calls) + 1].live =>
          \/ SubSeq(calls', Len(calls) + 1, Len(calls'))
               = <<[fn |-> "outPlugin", arg |-> Null, by |-> "Escape", live |-> TRUE]>>
          \/ /\ matchedItems.ok
             /\ selectedIndex' \in 0..(Len(matchedItems.val) - 1)
             /\ \E by \in {"Enter", "click", "timer"} :
                  SubSeq(calls', Len(calls) + 1, Len(calls'))
                    = CommitCalls(matchedItems.val[selectedIndex' + 1], by)

C15_CommitCallsInOrder == [](C15_CommitOnReachable) /\ [][C15_CommitStep]_vars

C15_Witness_ClickedSecond ==
  /\ route = "list-search"
  /\ selectedIndex = 1
  /\ Len(matchedItems.val) = 2
  /\ calls = CommitCalls(matchedItems.val[2], "click")
  /\ calls[1].arg = Str(<<"q">>)

\* C16: onMounted sets the timer if and only if there is exactly one candidate
\* and its trigger equals the query, case-insensitively; the timer that fires
\* while its view is mounted commits that candidate; and a timer that is set
\* fires unless its view is unmounted first.
C16_MountStep ==
  (route # "list-search" /\ route' = "list-search") =>
     \E mounted \in {matchedItemsOf(searchItems', searchKeyword')} :
       timerPending' <=>
         /\ mounted.ok
         /\ Len(mounted.val) = 1
         /\ SameText(TextOf(mounted.val[1], K_trigger), searchKeyword')

C16_FireStep ==
  (timerPending /\ ~timerPending' /\ route' = "list-search") =>
     calls' = calls \o CommitCalls(matchedItems.val[1], "timer")

C16_AutoCommit ==
  /\ [][C16_MountStep /\ C16_FireStep]_vars
  /\ (timerPending ~> ~timerPending)

C16_Witness_TimerDelivered ==
  /\ route = "list-search"
  /\ searchKeyword = <<"A">>
  /\ ~timerPending
  /\ calls = CommitCalls(ItemA, "timer")

\* C17: one keydown listener of ListSearch is registered on the document
\* while the search view is shown, and none while it is not.
C17_ListenerWhileMounted ==
  keydownListeners = IF route = "list-search" THEN 1 ELSE 0

C17_Witness_LeftForManager ==
  /\ route = "list-manager"
  /\ enters = 2
  /\ keydownListeners = 0
  /\ Len(calls) = 1
  /\ calls[1].by = "Escape"

\* The payloads of the form wj, white space, free text, and the free text:
\* what follows the white space, of one character at least
HasKeywordForm(p) ==
  /\ Len(p) >= 4
  /\ p[1] = "w" /\ p[2] = "j"
  /\ IsSpace(p[3])

RECURSIVE DropLeadingSpace(_)
DropLeadingSpace(s) ==
  IF Len(s) > 1 /\ IsSpace(s[1]) THEN DropLeadingSpace(Tail(s)) ELSE s

RECURSIVE DropOuterSpace(_)
DropOuterSpace(s) ==
  IF s = <<>> THEN s
  ELSE IF IsSpace(s[1]) THEN DropOuterSpace(Tail(s))
  ELSE IF IsSpace(s[Len(s)]) THEN DropOuterSpace(SubSeq(s, 1, Len(s) - 1))
  ELSE s

FreeText(p) == DropLeadingSpace(SubSeq(p, 4, Len(p)))

MountsSearch == route # "list-search" /\ route' = "list-search"

C19_CommitOnceAndNotAfterCancel ==
  enters = 1 =>
    /\ \A i \in 1..Len(calls) : \A j \in 1..Len(calls) :
         (/\ calls[i].fn = "copyText" /\ calls[i].live
          /\ calls[j].fn = "copyText" /\ calls[j].live) => i = j
    /\ \A i \in 1..Len(calls) : \A j \in (i + 1)..Len(calls) :
         ~(calls[i].by = "Escape" /\ calls[j].fn = "copyText" /\ calls[j].live)

\* C20: after an add, update, delete, clear or confirmed import whose write
\* succeeded, storage parses to the collection in memory, item for item and
\* field for field in the same order (to the very same items where none has a
\* property holding undefined); and a view that is mounted holds what storage
\* parses to, or no items where storage holds nothing.
Decoded(blob) == IF blob = Null THEN <<>> ELSE JSONparse(blob.v).val.v

C20_AfterWrite ==
  (/\ lastOp.op \in {"add", "update", "delete", "clear", "import"}
   /\ lastOp.outcome \in {"saved", "imported"}) =>
     /\ storage # Null
     /\ \E parsed \in {JSONparse(storage.v)} :
          /\ parsed.ok
          /\ IsArray(parsed.val)
          /\ FieldForField(parsed.val.v, listItems)
          /\ NoUndefinedProperty(listItems) => parsed.val.v = listItems

C20_LoadStep ==
  /\ (route # "list-manager" /\ route' = "list-manager") =>
       \E stored \in {Decoded(storage)} : listItems' = stored
  /\ (route # "list-search" /\ route' = "list-search") =>
       \E stored \in {Decoded(storage)} : searchItems' = stored

C20_StoredIsCollection == [](C20_AfterWrite) /\ [][C20_LoadStep]_vars

C20_Witness_SearchLoadedAdded ==
  /\ route = "list-search"
  /\ storage # Null
  /\ Len(searchItems) = 2
  /\ searchItems[1] = ShortItem
  /\ Get(searchItems[2], K_id) = Str(<<"0">>)
  /\ Get(searchItems[2], K_trigger) = Str(<<"b">>)
  /\ Get(searchItems[2], K_data) = Str(<<>>)

\* C21: while the search view is shown with a keyword that is not empty,
\* matchedItems is computed without throwing, whatever add, update, delete,
\* clear and import have made of the stored collection.
C21_MatchCompletes ==
  (route = "list-search" /\ searchKeyword # <<>>) => matchedItems.ok

====
